---- MODULE Spec2Model ----
(***************************************************************************)
(* Model of packages/angular_devkit/build_angular/src/browser/index.ts:    *)
(* the browser builder buildWebpackBrowser (an rxjs pipeline of four       *)
(* switchMap stages and an inner combineLatest / concatMap chain) and the  *)
(* logging callback createBrowserLoggingCallback.                          *)
(***************************************************************************)
EXTENDS Integers, Sequences, FiniteSets, TLC

\* ------------------------------------------------------------------ bounds
\* Longest Configuration List (2 = differential loading, index.ts:192).
MaxConfigs == 2
\* Rebuild reports (beyond each invocation's first) allowed in watch mode.
MaxRebuilds == 2

\* ------------------------------------------------------------------ values
None == "none"

\* context.workspaceRoot values (absolute paths, as lists of segments).
WorkspaceRoots == { <<"ws", "app">> }

\* options.outputPath values: relative, relative with "..", absolute.
OutputPaths ==
  { [abs |-> FALSE, segs |-> <<"dist">>],
    [abs |-> FALSE, segs |-> <<"..", "out">>],
    [abs |-> TRUE,  segs |-> <<"srv">>] }

VARIABLES
  options,     \* BrowserBuilderSchema fields read by the builder
  context,     \* BuilderContext: workspaceRoot, target
  workspace,   \* the workspace read by the config generator
  transforms,  \* which transform hooks the caller supplied
  configs,     \* the Configuration List the generator returns
  subscribed,  \* the returned observable has been subscribed to
  pc,          \* stage of the outer pipeline
  failure,     \* which stage raised the error delivered to the subscriber
  cfgList,     \* the configuration list threaded through the later stages
  xform,       \* per entry: state of the configFn observable
  cleanState,  \* state of deleteOutputDir
  cleanCalls,  \* number of calls of deleteOutputDir
  invoked,     \* configurations handed to runWebpack, in call order
  run,         \* per entry: state of the runWebpack observable
  count,       \* per entry: number of results reported
  latest,      \* last reported success of each entry that has reported
  rebuilds,    \* number of rebuild reports so far (bounded by MaxRebuilds)
  aggs,        \* aggregates computed by map at index.ts:198, in order
  aggQ,        \* aggregates buffered by concatMap at index.ts:199
  swState,     \* state of the augmentAppWithServiceWorker promise
  swCalls,     \* number of calls of augmentAppWithServiceWorker
  results,     \* Build Results produced by map at index.ts:213, in order
  outActive,   \* concatMap at index.ts:218 has an active outputFn observable
  outCur,      \* the Build Result the active outputFn observable was given, if any
  outQ,        \* Build Results buffered by concatMap at index.ts:218
  outCalls,    \* Build Results outputFn has been called with, in order
  emitted,     \* values delivered to the subscriber, in order
  logCall,     \* arguments of the calls of the logging callback to make
  logOut,      \* what each call made did: logger messages, whether it threw
  cfgIn,       \* build options and context of the fragment assemblies to make
  cfgOut       \* the fragment list each assembly made returned

inputs == <<options, context, workspace, transforms, configs>>
stageVars == <<subscribed, pc, failure, cfgList, xform, cleanState, cleanCalls, invoked, run>>
runVars == <<count, latest, rebuilds>>
chainVars == <<aggs, aggQ, swState, swCalls, results, outActive, outCur, outQ,
               outCalls, emitted>>
logVars == <<logCall, logOut>>
cfgVars == <<cfgIn, cfgOut>>
vars == <<inputs, stageVars, runVars, chainVars, logVars, cfgVars>>

\* ------------------------------------------------------------------ paths
\* Removes "." segments and resolves ".." against the segments before it,
\* as path.resolve does for an absolute path.
RECURSIVE NormalizeSegs(_, _)
NormalizeSegs(done, rest) ==
  IF rest = <<>> THEN done
  ELSE IF Head(rest) = "." THEN NormalizeSegs(done, Tail(rest))
  ELSE IF Head(rest) = ".."
       THEN NormalizeSegs(IF done = <<>> THEN done
                          ELSE SubSeq(done, 1, Len(done) - 1), Tail(rest))
  ELSE NormalizeSegs(Append(done, Head(rest)), Tail(rest))

\* path.resolve(context.workspaceRoot, options.outputPath): an absolute
\* second argument replaces the first, a relative one is joined to it.
PathResolve(root, p) ==
  IF p.abs THEN NormalizeSegs(<<>>, p.segs)
  ELSE NormalizeSegs(<<>>, root \o p.segs)

\* ------------------------------------------------------------------ helpers
\* Mutant of ProjectName: falls back to a made-up project name.
ProjectName_Fallback(ctx, ws) ==
  IF ctx.target # None THEN ctx.target ELSE "app"

\* index.ts:175-176
ProjectName(ctx, ws) ==
  IF ctx.target # None THEN ctx.target ELSE ws.defaultProject

\* generateBrowserWebpackConfigFromContext (utils/webpack-browser-config)
\* fails with a resolution error when the project cannot be determined.
GenerateThrows(ctx, ws) == ProjectName(ctx, ws) = None

\* Mutant of ConfigFn: the transform's output is dropped.
ConfigFn_Dropped(c) == c

\* configFn(workspace, config): the transformed configuration.
ConfigFn(c) == [c EXCEPT !.xf = TRUE]

\* Mutant of AllReported: emits as soon as one input observable has emitted.
AllReported_Any(l) == DOMAIN l # {}

\* combineLatest emits once every input observable has emitted.
AllReported(l) == DOMAIN l = DOMAIN configs

\* Mutant of Aggregate: some() instead of every().
Aggregate_Some(l) == \E i \in DOMAIN l : l[i]

\* index.ts:198  buildEvents.every(r => r.success)
Aggregate(l) == \A i \in DOMAIN l : l[i]

\* Mutant of ShouldAugment: the watch test is missing.
ShouldAugment_NoWatchTest(success, opts) ==
  success /\ opts.serviceWorker

\* index.ts:200
ShouldAugment(success, opts) ==
  success /\ ~opts.watch /\ opts.serviceWorker

\* Mutant of SwResult: the rejection handler also reports success.
SwResult_AlwaysTrue(resolved) == [success |-> TRUE]

\* index.ts:208  the two handlers of then()
SwResult(resolved) == [success |-> resolved]

\* Mutant of WithOutputPath: a failed event keeps the unresolved option.
WithOutputPath_OnlyOnSuccess(event, ctx, opts) ==
  [success |-> event.success,
   outputPath |-> IF event.success
                  THEN PathResolve(ctx.workspaceRoot, opts.outputPath)
                  ELSE opts.outputPath.segs]

\* index.ts:213-217
WithOutputPath(event, ctx, opts) ==
  [success |-> event.success,
   outputPath |-> PathResolve(ctx.workspaceRoot, opts.outputPath)]

\* What the subscriber receives for a Build Result r.
Direct(r) == [success |-> r.success, outputPath |-> r.outputPath, via |-> "of"]

\* Mutant of OutputFn: the Build Result is emitted as it is.
OutputFn_Bypassed(r) == Direct(r)

OutputFn(r) == [success |-> r.success, outputPath |-> r.outputPath, via |-> "outputFn"]

\* ------------------------------------------------------------------ Init
InitInputs ==
  /\ options \in [watch : BOOLEAN, serviceWorker : BOOLEAN,
                  deleteOutputPath : BOOLEAN, outputPath : OutputPaths]
  /\ context \in [workspaceRoot : WorkspaceRoots, target : {None, "app"}]
  /\ workspace \in [defaultProject : {None, "app"}]
  /\ transforms \in [config : BOOLEAN, output : BOOLEAN]
  /\ configs \in { [i \in 1..n |-> [id |-> i, xf |-> FALSE]] : n \in 1..MaxConfigs }

\* The state of a builder that has been called but not subscribed to.
\* index.ts:150-152  nothing of the pipeline has run: no stage entered, no
\* collaborator called, nothing emitted.
Unstarted ==
  /\ failure = None
  /\ cfgList = <<>>
  /\ xform = [i \in DOMAIN configs |-> None]
  /\ cleanState = None
  /\ cleanCalls = 0
  /\ invoked = <<>>
  /\ run = [i \in DOMAIN configs |-> None]
  /\ count = [i \in DOMAIN configs |-> 0]
  /\ latest = << >>
  /\ rebuilds = 0
  /\ aggs = <<>>
  /\ aggQ = <<>>
  /\ swState = None
  /\ swCalls = 0
  /\ results = <<>>
  /\ outActive = FALSE
  /\ outCur = <<>>
  /\ outQ = <<>>
  /\ outCalls = <<>>
  /\ emitted = <<>>

\* Mutant of Unsubscribed: the call itself starts the configuration.
Unsubscribed_Hot ==
  /\ subscribed = FALSE
  /\ pc = "configure"
  /\ Unstarted

\* index.ts:150-152  buildWebpackBrowser returns of(null).pipe(...): the
\* state after the call, before any subscription.
Unsubscribed ==
  /\ subscribed = FALSE
  /\ pc = "idle"
  /\ Unstarted

Init ==
  /\ InitInputs
  /\ Unsubscribed
  /\ logCall = <<>>
  /\ logOut = <<>>
  /\ cfgIn = <<>>
  /\ cfgOut = <<>>

\* ------------------------------------------------------------------ stages
\* index.ts:174-189  the fourth switchMap: resolve the project, then call
\* runWebpack once per configuration and subscribe to all of them.
EnterCompile(list) ==
  IF ProjectName(context, workspace) = None
  THEN /\ pc' = "error"
       /\ failure' = "resolve"
       /\ UNCHANGED <<invoked, run>>
  ELSE /\ pc' = "compile"
       /\ invoked' = list
       /\ run' = [i \in DOMAIN run |-> "running"]
       /\ UNCHANGED failure

\* Mutant of EnterClean: the clean stage is skipped.
EnterClean_Skipped(list) ==
  /\ EnterCompile(list)
  /\ UNCHANGED <<cleanState, cleanCalls>>

\* index.ts:163-173  the third switchMap: deleteOutputDir when requested.
EnterClean(list) ==
  IF options.deleteOutputPath
  THEN /\ pc' = "clean"
       /\ cleanState' = "pending"
       /\ cleanCalls' = cleanCalls + 1
       /\ UNCHANGED <<failure, invoked, run>>
  ELSE /\ EnterCompile(list)
       /\ UNCHANGED <<cleanState, cleanCalls>>

\* index.ts:154-162  the second switchMap: configFn on every entry, joined
\* by combineLatest.
EnterTransform(list) ==
  /\ IF transforms.config
     THEN /\ pc' = "transform"
          /\ xform' = [i \in DOMAIN xform |-> "pending"]
          /\ UNCHANGED <<failure, cleanState, cleanCalls, invoked, run>>
     ELSE /\ EnterClean(list)
          /\ UNCHANGED xform
  /\ cfgList' = list

\* index.ts:152  the subscription starts buildBrowserWebpackConfigFromContext.
Subscribe ==
  /\ pc = "idle"
  /\ subscribed' = TRUE
  /\ pc' = "configure"
  /\ UNCHANGED <<inputs, logVars, cfgVars, failure, cfgList, xform, cleanState, cleanCalls,
                 invoked, run, runVars, chainVars>>

\* index.ts:152  a later subscription to the returned observable, after the
\* run of the previous one ended: of(null) emits again and a new run starts,
\* which the variables record from then on.
Resubscribe ==
  /\ pc \in {"done", "error"}
  /\ UNCHANGED <<inputs, logVars, cfgVars>>
  /\ subscribed' = TRUE
  /\ pc' = "configure"
  /\ failure' = None
  /\ cfgList' = <<>>
  /\ xform' = [i \in DOMAIN configs |-> None]
  /\ cleanState' = None
  /\ cleanCalls' = 0
  /\ invoked' = <<>>
  /\ run' = [i \in DOMAIN configs |-> None]
  /\ count' = [i \in DOMAIN configs |-> 0]
  /\ latest' = << >>
  /\ rebuilds' = 0
  /\ aggs' = <<>>
  /\ aggQ' = <<>>
  /\ swState' = None
  /\ swCalls' = 0
  /\ results' = <<>>
  /\ outActive' = FALSE
  /\ outCur' = <<>>
  /\ outQ' = <<>>
  /\ outCalls' = <<>>
  /\ emitted' = <<>>
  /\ Unstarted'

\* index.ts:153  the configuration promise resolves.
ConfigureOk ==
  /\ pc = "configure"
  /\ ~GenerateThrows(context, workspace)
  /\ EnterTransform(configs)
  /\ UNCHANGED <<inputs, logVars, cfgVars, subscribed, runVars, chainVars>>

\* Mutant of ConfigureFail: the rejection is swallowed and the pipeline goes on.
ConfigureFail_Swallowed ==
  /\ pc = "configure"
  /\ EnterTransform(configs)
  /\ UNCHANGED <<inputs, logVars, cfgVars, subscribed, runVars, chainVars>>

\* index.ts:153  the configuration promise rejects: the error is delivered.
ConfigureFail ==
  /\ pc = "configure"
  /\ pc' = "error"
  /\ failure' = "configure"
  /\ UNCHANGED <<inputs, logVars, cfgVars, subscribed, cfgList, xform, cleanState, cleanCalls, invoked, run,
                 runVars, chainVars>>

\* index.ts:156-158  one configFn observable yields; combineLatest emits the
\* transformed list once every entry has yielded.
TransformYield(i) ==
  /\ pc = "transform"
  /\ xform[i] = "pending"
  /\ xform' = [xform EXCEPT ![i] = "yielded"]
  /\ IF \A j \in DOMAIN xform : xform'[j] = "yielded"
     THEN LET list == [j \in DOMAIN cfgList |-> ConfigFn(cfgList[j])]
          IN /\ EnterClean(list)
             /\ cfgList' = list
     ELSE UNCHANGED <<pc, failure, cfgList, cleanState, cleanCalls, invoked, run>>
  /\ UNCHANGED <<inputs, logVars, cfgVars, subscribed, runVars, chainVars>>

\* index.ts:156-158  one configFn observable fails: the error is delivered.
TransformFail(i) ==
  /\ pc = "transform"
  /\ xform[i] = "pending"
  /\ xform' = [xform EXCEPT ![i] = "failed"]
  /\ pc' = "error"
  /\ failure' = "transform"
  /\ UNCHANGED <<inputs, logVars, cfgVars, subscribed, cfgList, cleanState, cleanCalls, invoked, run,
                 runVars, chainVars>>

\* index.ts:165-169  deleteOutputDir completes.
CleanOk ==
  /\ pc = "clean"
  /\ cleanState' = "done"
  /\ EnterCompile(cfgList)
  /\ UNCHANGED <<inputs, logVars, cfgVars, subscribed, cfgList, xform, cleanCalls, runVars, chainVars>>

\* Mutant of CleanFail: the failure is swallowed and the builds start.
CleanFail_Swallowed ==
  /\ pc = "clean"
  /\ cleanState' = "failed"
  /\ EnterCompile(cfgList)
  /\ UNCHANGED <<inputs, logVars, cfgVars, subscribed, cfgList, xform, cleanCalls, runVars, chainVars>>

\* index.ts:165-169  deleteOutputDir fails: the error is delivered.
CleanFail ==
  /\ pc = "clean"
  /\ cleanState' = "failed"
  /\ pc' = "error"
  /\ failure' = "clean"
  /\ UNCHANGED <<inputs, logVars, cfgVars, subscribed, cfgList, xform, cleanCalls, invoked, run, runVars, chainVars>>

\* ------------------------------------------------------------------ chain
\* index.ts:213-218  map adds outputPath; concatMap hands each result to
\* outputFn (one at a time, buffering the rest) or emits it as it is.
EmitStage(evs) ==
  LET rs == [k \in 1..Len(evs) |-> WithOutputPath(evs[k], context, options)]
  IN /\ results' = results \o rs
     /\ IF rs = <<>>
        THEN UNCHANGED <<outActive, outCur, outQ, outCalls, emitted>>
        ELSE IF ~transforms.output
        THEN /\ emitted' = emitted \o [k \in 1..Len(rs) |-> Direct(rs[k])]
             /\ UNCHANGED <<outActive, outCur, outQ, outCalls>>
        ELSE IF outActive
        THEN /\ outQ' = outQ \o rs
             /\ UNCHANGED <<outActive, outCur, outCalls, emitted>>
        ELSE /\ outActive' = TRUE
             /\ outCur' = <<Head(rs)>>
             /\ outCalls' = Append(outCalls, Head(rs))
             /\ outQ' = Tail(rs)
             /\ UNCHANGED emitted

\* Mutant of Drain: the event of an aggregate to augment is passed on when
\* the augmentation starts, before it settles.
RECURSIVE Drain_EmitsAtStart(_, _)
Drain_EmitsAtStart(q, evs) ==
  IF q = <<>> THEN [evs |-> evs, rest |-> <<>>, start |-> FALSE]
  ELSE IF ShouldAugment(Head(q), options)
       THEN [evs |-> Append(evs, [success |-> Head(q)]), rest |-> Tail(q), start |-> TRUE]
  ELSE Drain_EmitsAtStart(Tail(q), Append(evs, [success |-> Head(q)]))

\* index.ts:199-212  concatMap with no active inner observable takes the
\* buffered aggregates in order: of(buildEvent) emits at once, a call of
\* augmentAppWithServiceWorker becomes the active inner observable.
RECURSIVE Drain(_, _)
Drain(q, evs) ==
  IF q = <<>> THEN [evs |-> evs, rest |-> <<>>, start |-> FALSE]
  ELSE IF ShouldAugment(Head(q), options)
       THEN [evs |-> evs, rest |-> Tail(q), start |-> TRUE]
  ELSE Drain(Tail(q), Append(evs, [success |-> Head(q)]))

\* index.ts:198-212  a new aggregate reaches concatMap.
AggStage(a) ==
  /\ aggs' = Append(aggs, a)
  /\ IF swState = "pending"
     THEN /\ aggQ' = Append(aggQ, a)
          /\ UNCHANGED <<swState, swCalls>>
          /\ EmitStage(<<>>)
     ELSE LET d == Drain(<<a>>, <<>>)
          IN /\ aggQ' = d.rest
             /\ swState' = IF d.start THEN "pending" ELSE swState
             /\ swCalls' = IF d.start THEN swCalls + 1 ELSE swCalls
             /\ EmitStage(d.evs)

\* Mutant of Quiescent: completion does not wait for the active outputFn
\* observable.
Quiescent_NoOutputWait ==
  /\ \A i \in DOMAIN run : run[i] = "complete"
  /\ swState # "pending"
  /\ aggQ = <<>>

\* The inner chain completes when combineLatest has completed (every
\* runWebpack observable completed) and both concatMaps are drained.
Quiescent ==
  /\ \A i \in DOMAIN run : run[i] = "complete"
  /\ swState # "pending"
  /\ aggQ = <<>>
  /\ ~outActive
  /\ outQ = <<>>

\* index.ts:187-219  runWebpack for entry i reports a result; without watch
\* it completes with that result.
RunReport(i, ok) ==
  /\ pc = "compile"
  /\ run[i] = "running"
  /\ count[i] = 0 \/ (options.watch /\ rebuilds < MaxRebuilds)
  /\ count' = [count EXCEPT ![i] = @ + 1]
  /\ latest' = [j \in DOMAIN latest \cup {i} |-> IF j = i THEN ok ELSE latest[j]]
  /\ rebuilds' = IF count[i] > 0 THEN rebuilds + 1 ELSE rebuilds
  /\ run' = [run EXCEPT ![i] = IF options.watch THEN "running" ELSE "complete"]
  /\ IF AllReported(latest')
     THEN AggStage(Aggregate(latest'))
     ELSE UNCHANGED chainVars
  /\ UNCHANGED <<inputs, logVars, cfgVars, subscribed, failure, cfgList, xform, cleanState, cleanCalls, invoked>>
  /\ pc' = IF Quiescent' THEN "done" ELSE "compile"

\* index.ts:187-219  runWebpack for entry i raises a fault: combineLatest
\* unsubscribes the others and the error passes every operator.
RunFault(i) ==
  /\ pc = "compile"
  /\ run[i] = "running"
  /\ run' = [j \in DOMAIN run |->
               IF j = i THEN "faulted"
               ELSE IF run[j] = "running" THEN "cancelled" ELSE run[j]]
  /\ pc' = "error"
  /\ failure' = "compile"
  /\ aggQ' = <<>>
  /\ outQ' = <<>>
  /\ outActive' = FALSE
  /\ outCur' = <<>>
  /\ UNCHANGED <<inputs, logVars, cfgVars, subscribed, cfgList, xform, cleanState, cleanCalls, invoked,
                 runVars, aggs, swState, swCalls, results, outCalls, emitted>>

\* index.ts:201-208  the augmentAppWithServiceWorker promise settles.
SwSettle(resolved) ==
  /\ pc = "compile"
  /\ swState = "pending"
  /\ LET d == Drain(aggQ, <<SwResult(resolved)>>)
     IN /\ aggQ' = d.rest
        /\ swState' = IF d.start THEN "pending"
                      ELSE IF resolved THEN "resolved" ELSE "rejected"
        /\ swCalls' = IF d.start THEN swCalls + 1 ELSE swCalls
        /\ EmitStage(d.evs)
  /\ UNCHANGED <<inputs, logVars, cfgVars, subscribed, failure, cfgList, xform, cleanState, cleanCalls,
                 invoked, run, runVars, aggs>>
  /\ pc' = IF Quiescent' THEN "done" ELSE "compile"

\* index.ts:218  the active outputFn observable yields its value and
\* completes; concatMap subscribes to outputFn of the next buffered result.
OutputYield ==
  /\ pc = "compile"
  /\ outActive
  /\ emitted' = Append(emitted, OutputFn(outCur[1]))
  /\ IF outQ = <<>>
     THEN /\ outActive' = FALSE
          /\ outCur' = <<>>
          /\ UNCHANGED <<outQ, outCalls>>
     ELSE /\ outCur' = <<Head(outQ)>>
          /\ outCalls' = Append(outCalls, Head(outQ))
          /\ outQ' = Tail(outQ)
          /\ UNCHANGED outActive
  /\ UNCHANGED <<inputs, logVars, cfgVars, subscribed, failure, cfgList, xform, cleanState, cleanCalls,
                 invoked, run, runVars, aggs, aggQ, swState, swCalls, results>>
  /\ pc' = IF Quiescent' THEN "done" ELSE "compile"

Next ==
  \/ Subscribe
  \/ ConfigureOk
  \/ ConfigureFail
  \/ \E i \in DOMAIN xform : TransformYield(i)
  \/ \E i \in DOMAIN xform : TransformFail(i)
  \/ CleanOk
  \/ CleanFail
  \/ \E i \in DOMAIN run, ok \in BOOLEAN : RunReport(i, ok)
  \/ \E i \in DOMAIN run : RunFault(i)
  \/ \E resolved \in BOOLEAN : SwSettle(resolved)
  \/ OutputYield

Spec == Init /\ [][Next]_vars

\* Every pending promise and observable of the pipeline eventually settles,
\* and a subscriber eventually subscribes.
SpecFair == Spec /\ WF_vars(Next)

\* The returned observable subscribed to any number of times, one
\* subscription after the other.
NextCold ==
  \/ Next
  \/ Resubscribe

SpecCold == Init /\ [][NextCold]_vars

TypeOK ==
  /\ pc \in {"idle", "configure", "transform", "clean", "compile", "done", "error"}
  /\ failure \in {None, "configure", "transform", "clean", "resolve", "compile"}
  /\ swState \in {None, "pending", "resolved", "rejected"}
  /\ cleanCalls \in 0..1
  /\ aggQ = <<>>

\* ------------------------------------------------------------------ logging
\* Mutant of LogCalls: the warnings summary is written in the summary
\* branch only.
LogCalls_WarnInElseBranch(verbose, stats) ==
  <<"stats.toJson">>
  \o (IF verbose THEN <<"stats.toString", "logger.info">>
      ELSE <<"statsToString", "logger.info">>)
  \o <<"stats.hasWarnings">>
  \o (IF stats.warnings /\ ~verbose
      THEN <<"statsWarningsToString", "logger.warn">> ELSE <<>>)
  \o <<"stats.hasErrors">>
  \o (IF stats.errors THEN <<"statsErrorsToString", "logger.error">> ELSE <<>>)

\* The collaborator calls the callback makes, in order (index.ts:59-71).
LogCalls(verbose, stats) ==
  <<"stats.toJson">>
  \o (IF verbose THEN <<"stats.toString", "logger.info">>
      ELSE <<"statsToString", "logger.info">>)
  \o <<"stats.hasWarnings">>
  \o (IF stats.warnings THEN <<"statsWarningsToString", "logger.warn">> ELSE <<>>)
  \o <<"stats.hasErrors">>
  \o (IF stats.errors THEN <<"statsErrorsToString", "logger.error">> ELSE <<>>)

AllLogCalls ==
  {"stats.toJson", "stats.toString", "statsToString", "logger.info",
   "stats.hasWarnings", "statsWarningsToString", "logger.warn",
   "stats.hasErrors", "statsErrorsToString", "logger.error"}

\* The message a logger call writes: its level and the text it was given.
LogMessage(call, before) ==
  IF call = "logger.info"
  THEN [level |-> "info", text |-> before]
  ELSE IF call = "logger.warn"
  THEN [level |-> "warn", text |-> before]
  ELSE [level |-> "error", text |-> before]

\* Runs the calls in order; the callback has no handler, so the first call
\* that throws ends it and the exception leaves the callback.
RECURSIVE RunLogCalls(_, _, _, _)
RunLogCalls(calls, k, failing, msgs) ==
  IF k > Len(calls) THEN [msgs |-> msgs, threw |-> FALSE]
  ELSE IF calls[k] = failing THEN [msgs |-> msgs, threw |-> TRUE]
  ELSE IF calls[k] \in {"logger.info", "logger.warn", "logger.error"}
       THEN RunLogCalls(calls, k + 1, failing,
                        Append(msgs, LogMessage(calls[k], calls[k - 1])))
  ELSE RunLogCalls(calls, k + 1, failing, msgs)

\* index.ts:57-72  the callback createBrowserLoggingCallback returns.
LoggingCallback(verbose, stats, failing) ==
  RunLogCalls(LogCalls(verbose, stats), 1, failing, <<>>)

\* One call of the callback: the verbose flag it was created with, the
\* statistics, and the collaborator call that fails (None: none does).
LogInputs ==
  [verbose : BOOLEAN,
   stats : [warnings : BOOLEAN, errors : BOOLEAN],
   failing : AllLogCalls \cup {None}]

\* One builder, called and not subscribed to: the state in which the
\* functions of the module are applied on their own.
OneBuilder ==
  /\ options = [watch |-> FALSE, serviceWorker |-> FALSE,
                deleteOutputPath |-> FALSE,
                outputPath |-> [abs |-> FALSE, segs |-> <<"dist">>]]
  /\ context = [workspaceRoot |-> <<"ws", "app">>, target |-> "app"]
  /\ workspace = [defaultProject |-> "app"]
  /\ transforms = [config |-> FALSE, output |-> FALSE]
  /\ configs = <<[id |-> 1, xf |-> FALSE]>>
  /\ Unsubscribed

InitLog ==
  /\ OneBuilder
  /\ logCall \in {<<in>> : in \in LogInputs}
  /\ logOut = <<>>
  /\ cfgIn = <<>>
  /\ cfgOut = <<>>

\* index.ts:57  the build runner calls the callback.
CallLogging ==
  /\ Len(logOut) < Len(logCall)
  /\ LET in == logCall[Len(logOut) + 1]
     IN logOut' = Append(logOut, LoggingCallback(in.verbose, in.stats, in.failing))
  /\ UNCHANGED <<inputs, stageVars, runVars, chainVars, logCall, cfgVars>>

NextLog == CallLogging

SpecLog == InitLog /\ [][NextLog]_vars

\* C10: a call of the logging callback never throws, whatever the
\* statistics and whichever of the statistics, formatter or logger calls
\* fails.
C10_CallbackNeverThrows ==
  \A k \in DOMAIN logOut : ~logOut[k].threw

\* The messages one call is to write: one info message (the raw statistics
\* text if verbose, the condensed summary otherwise), then the warnings
\* summary iff the statistics have warnings, then the errors summary iff
\* they have errors.
ExpectedMessages(in) ==
  <<[level |-> "info",
     text |-> IF in.verbose THEN "stats.toString" ELSE "statsToString"]>>
  \o (IF in.stats.warnings
      THEN <<[level |-> "warn", text |-> "statsWarningsToString"]>> ELSE <<>>)
  \o (IF in.stats.errors
      THEN <<[level |-> "error", text |-> "statsErrorsToString"]>> ELSE <<>>)

\* C11: every call of the logging callback in which no statistics, formatter
\* or logger call fails writes exactly one info message (the raw statistics
\* text if verbose, the condensed summary otherwise), then the warnings
\* summary iff the statistics have warnings, then the errors summary iff
\* they have errors; the last two are the same for both values of verbose.
C11_MessagesPerCall ==
  \A k \in DOMAIN logOut :
    ~logOut[k].threw => logOut[k].msgs = ExpectedMessages(logCall[k])

C11_Witness ==
  \E k \in DOMAIN logOut :
    /\ ~logOut[k].threw
    /\ logCall[k].verbose
    /\ logCall[k].stats.warnings /\ logCall[k].stats.errors
    /\ Len(logOut[k].msgs) = 3

\* ------------------------------------------------------------------ fragments
\* JavaScript values of the options: strings and booleans by their text.
Undefined == "undefined"

\* The values an if or ?: takes as false.
Truthy(v) == v \notin {Undefined, "false", ""}

\* A configuration fragment: what it is, and the plugins it adds.
Fragment(kind) == [kind |-> kind, plugins |-> <<>>]
EmptyFragment == Fragment("empty")

\* String.prototype.split on a string given as its list of tokens, sep
\* being one token: the pieces between the separators.
RECURSIVE SplitFrom(_, _, _, _)
SplitFrom(str, sep, piece, pieces) ==
  IF str = <<>> THEN Append(pieces, piece)
  ELSE IF Head(str) = sep
       THEN SplitFrom(Tail(str), sep, <<>>, Append(pieces, piece))
  ELSE SplitFrom(Tail(str), sep, Append(piece, Head(str)), pieces)

Split(str, sep) == SplitFrom(str, sep, <<>>, <<>>)

\* pieces[k] of a JavaScript array (k from 0): undefined past its end.
At(pieces, k) ==
  IF k + 1 \in DOMAIN pieces
  THEN [defined |-> TRUE, str |-> pieces[k + 1]]
  ELSE [defined |-> FALSE, str |-> <<>>]

\* Mutant of AnalyticsCategory: the package part of the builder name.
AnalyticsCategory_PackagePart(ctx) ==
  IF ctx.builder # <<>>
  THEN At(Split(ctx.builder[1].builderName, ":"), 0)
  ELSE [defined |-> TRUE, str |-> <<"build">>]

\* index.ts:102-106
AnalyticsCategory(ctx) ==
  IF ctx.builder # <<>>
  THEN At(Split(ctx.builder[1].builderName, ":"), 1)
  ELSE [defined |-> TRUE, str |-> <<"build">>]

\* index.ts:96-117
getAnalyticsConfig(wco, ctx) ==
  IF Truthy(ctx.analytics)
  THEN [kind |-> "analytics",
        plugins |-> <<[projectRoot |-> wco.projectRoot,
                       analytics |-> ctx.analytics,
                       category |-> AnalyticsCategory(ctx)]>>]
  ELSE EmptyFragment

\* Mutant of getCompilerConfig: polyfills is not looked at.
getCompilerConfig_MainOnly(wco) ==
  IF Truthy(wco.buildOptions.main)
  THEN IF Truthy(wco.buildOptions.aot) THEN Fragment("aot") ELSE Fragment("nonAot")
  ELSE EmptyFragment

\* index.ts:119-125
getCompilerConfig(wco) ==
  IF Truthy(wco.buildOptions.main) \/ Truthy(wco.buildOptions.polyfills)
  THEN IF Truthy(wco.buildOptions.aot) THEN Fragment("aot") ELSE Fragment("nonAot")
  ELSE EmptyFragment

\* index.ts:83-91  the fragment list handed to the configuration generator.
PartialGenerator(wco, ctx) ==
  << Fragment("common"),
     Fragment("browser"),
     Fragment("styles"),
     Fragment("stats"),
     getAnalyticsConfig(wco, ctx),
     getCompilerConfig(wco),
     IF Truthy(wco.buildOptions.webWorkerTsConfig) THEN Fragment("worker")
     ELSE EmptyFragment >>

\* Builder names: package ":" builder, and a bare builder name.
BuilderNames ==
  { <<"build-angular", ":", "browser">>,
    <<"build-angular", ":", "dev-server">>,
    <<"browser">> }

CfgInputs ==
  [wco : [projectRoot : {<<"ws", "app">>},
          buildOptions : [main : {Undefined, "", "src/main.ts"},
                          polyfills : {Undefined, "", "src/polyfills.ts"},
                          aot : {Undefined, "false", "true"},
                          webWorkerTsConfig : {Undefined, "tsconfig.worker.json"}]],
   ctx : [analytics : {Undefined, "sink"},
          builder : {<<>>} \cup {<<[builderName |-> n]>> : n \in BuilderNames}]]

InitCfg ==
  /\ OneBuilder
  /\ logCall = <<>>
  /\ logOut = <<>>
  /\ cfgIn \in {<<in>> : in \in CfgInputs}
  /\ cfgOut = <<>>

\* index.ts:83-91  the generator calls the function that lists the fragments.
Assemble ==
  /\ Len(cfgOut) < Len(cfgIn)
  /\ LET in == cfgIn[Len(cfgOut) + 1]
     IN cfgOut' = Append(cfgOut, PartialGenerator(in.wco, in.ctx))
  /\ UNCHANGED <<inputs, stageVars, runVars, chainVars, logVars, cfgIn>>

NextCfg == Assemble

SpecCfg == InitCfg /\ [][NextCfg]_vars

\* An option is set: it is neither undefined nor the empty string.
IsSet(v) == v # Undefined /\ v # ""

\* C16: the compiler fragment (the sixth of the list) is the AOT fragment if
\* main or polyfills is set and aot is true, the non-AOT fragment if one of
\* them is set and aot is not true, and the empty fragment if neither is set.
C16_CompilerFragment ==
  \A k \in DOMAIN cfgOut :
    LET o == cfgIn[k].wco.buildOptions
        f == cfgOut[k][6]
    IN /\ (IsSet(o.main) \/ IsSet(o.polyfills)) /\ o.aot = "true" => f = Fragment("aot")
       /\ (IsSet(o.main) \/ IsSet(o.polyfills)) /\ o.aot # "true" => f = Fragment("nonAot")
       /\ ~IsSet(o.main) /\ ~IsSet(o.polyfills) => f = EmptyFragment

C16_Witness ==
  \E k \in DOMAIN cfgOut :
    /\ ~IsSet(cfgIn[k].wco.buildOptions.main)
    /\ IsSet(cfgIn[k].wco.buildOptions.polyfills)
    /\ cfgIn[k].wco.buildOptions.aot = "true"
    /\ cfgOut[k][6].kind = "aot"

\* The part of a builder name after its first ":" (undefined without one).
RECURSIVE AfterColon(_)
AfterColon(name) ==
  IF name = <<>> THEN [defined |-> FALSE, str |-> <<>>]
  ELSE IF Head(name) = ":" THEN [defined |-> TRUE, str |-> Tail(name)]
  ELSE AfterColon(Tail(name))

\* C17: the analytics fragment (the fifth of the list) is the empty fragment
\* if the context has no analytics sink; with a sink it has exactly one
\* plugin, for that sink, whose category is the part of the builder name
\* after ":" if the context has a builder and "build" otherwise.
C17_AnalyticsFragment ==
  \A k \in DOMAIN cfgOut :
    LET c == cfgIn[k].ctx
        f == cfgOut[k][5]
    IN /\ c.analytics = Undefined => f = EmptyFragment
       /\ c.analytics # Undefined =>
            /\ f.kind = "analytics"
            /\ Len(f.plugins) = 1
            /\ f.plugins[1].analytics = c.analytics
            /\ f.plugins[1].category =
                 IF c.builder # <<>> THEN AfterColon(c.builder[1].builderName)
                 ELSE [defined |-> TRUE, str |-> <<"build">>]

C17_Witness ==
  \E k \in DOMAIN cfgOut :
    /\ cfgIn[k].ctx.analytics = "sink"
    /\ cfgIn[k].ctx.builder # <<>>
    /\ cfgOut[k][5].plugins[1].category = [defined |-> TRUE, str |-> <<"dev-server">>]

\* ------------------------------------------------------------------ claims
Undeterminable == context.target = None /\ workspace.defaultProject = None
ResolvedOutputPath == PathResolve(context.workspaceRoot, options.outputPath)

\* C1: whenever an aggregate has been computed, the latest aggregate is true
\* iff every build invocation's (latest) reported result has success = true.
C1_AggregateIffAllSucceed ==
  aggs # <<>> =>
    (aggs[Len(aggs)] <=>
       \A i \in DOMAIN configs : i \in DOMAIN latest /\ latest[i] = TRUE)

C1_Witness ==
  /\ Len(configs) = 2
  /\ aggs # <<>>
  /\ ~aggs[Len(aggs)]
  /\ latest[1] /\ ~latest[2]

\* C2: once the builds are started, runWebpack has been called exactly once
\* per configuration entry, in order; and no aggregate, service-worker call,
\* Build Result or emission exists unless every entry has reported a result.
C2_JoinBeforeAggregate ==
  /\ (pc \in {"compile", "done"} \/ failure = "compile") =>
       /\ Len(invoked) = Len(configs)
       /\ \A i \in DOMAIN configs : invoked[i].id = configs[i].id
       /\ \A i \in DOMAIN configs : run[i] # None
  /\ (aggs # <<>> \/ swCalls > 0 \/ swState # None \/ results # <<>>
        \/ outActive \/ emitted # <<>>) =>
       \A i \in DOMAIN configs : count[i] >= 1

C2_Witness ==
  /\ Len(configs) = 2
  /\ pc = "compile"
  /\ count[2] = 1 /\ count[1] = 0
  /\ aggs = <<>> /\ results = <<>>

\* C3: augmentAppWithServiceWorker has been called once for each aggregate
\* that is true while watch is off and serviceWorker is on, and for no other:
\* never in watch mode, never for a failed aggregate.
C3_AugmentIffCondition ==
  swCalls = Cardinality({k \in DOMAIN aggs :
                           aggs[k] /\ ~options.watch /\ options.serviceWorker})

C3_Witness ==
  /\ options.watch /\ options.serviceWorker
  /\ aggs # <<>> /\ aggs[Len(aggs)]
  /\ results # <<>> /\ results[Len(results)].success
  /\ swCalls = 0

\* C4: after the service-worker promise rejected, no error was delivered, all
\* build invocations had succeeded, and the one Build Result has success =
\* false: it is with outputFn, or emitted when the operation completes.
C4_AugmentFailureDowngrades ==
  swState = "rejected" =>
    /\ pc \in {"compile", "done"}
    /\ failure = None
    /\ \A i \in DOMAIN configs : latest[i] = TRUE
    /\ Len(results) = 1 /\ results[1].success = FALSE
    /\ pc = "compile" => outActive /\ outCur = <<results[1]>>
    /\ pc = "done" => Len(emitted) = 1 /\ emitted[1].success = FALSE

C4_Witness ==
  /\ swState = "rejected"
  /\ pc = "done"
  /\ Len(emitted) = 1

\* C5: every Build Result, emitted or handed to outputFn, successful or not,
\* carries path.resolve(context.workspaceRoot, options.outputPath).
C5_OutputPathAlwaysResolved ==
  /\ \A k \in DOMAIN results : results[k].outputPath = ResolvedOutputPath
  /\ \A k \in DOMAIN emitted : emitted[k].outputPath = ResolvedOutputPath

C5_Witness ==
  /\ ~options.outputPath.abs
  /\ \E k \in DOMAIN emitted : ~emitted[k].success
  /\ \E k \in DOMAIN emitted : emitted[k].success

\* C6: with no target in the context and no default project in the
\* workspace, no runWebpack call is made and no Build Result is produced or
\* emitted; the operation never reaches the compile stage or completes, and
\* the error it ends with is a configuration or resolution error.
C6_NoProjectNoBuild ==
  Undeterminable =>
    /\ invoked = <<>>
    /\ \A i \in DOMAIN run : run[i] = None
    /\ aggs = <<>> /\ results = <<>> /\ emitted = <<>>
    /\ pc \notin {"compile", "done"}
    /\ pc = "error" => failure \in {"configure", "transform", "clean", "resolve"}

C6_Witness ==
  /\ Undeterminable
  /\ pc = "error"

\* C7: when the Configure stage (the configuration generator or a config
\* transform) has failed, deleteOutputDir has not been called; with an
\* undeterminable project it is never called.
C7_ConfigureFailureBeforeClean ==
  /\ failure \in {"configure", "transform"} => cleanCalls = 0 /\ cleanState = None
  /\ Undeterminable => cleanCalls = 0 /\ cleanState = None

C7_Witness ==
  /\ Undeterminable
  /\ options.deleteOutputPath
  /\ failure = "configure"

\* C8: deleteOutputDir is called only if deleteOutputPath is set, at most
\* once, only after the configuration list is built (and transformed), and
\* if deleteOutputPath is set it has completed before any runWebpack call.
C8_CleanBetweenConfigureAndCompile ==
  /\ ~options.deleteOutputPath => cleanCalls = 0 /\ cleanState = None
  /\ cleanCalls <= 1
  /\ cleanCalls > 0 =>
       /\ Len(cfgList) = Len(configs)
       /\ transforms.config =>
            /\ \A i \in DOMAIN xform : xform[i] = "yielded"
            /\ \A i \in DOMAIN cfgList : cfgList[i].xf
  /\ (options.deleteOutputPath /\ (invoked # <<>> \/ \E i \in DOMAIN run : run[i] # None)) =>
       cleanState = "done"

C8_Witness ==
  /\ options.deleteOutputPath
  /\ transforms.config
  /\ cleanState = "done"
  /\ \E i \in DOMAIN run : run[i] = "running"

\* C9: a failed clean step ends the operation with an error before any
\* runWebpack call, Build Result or service-worker call; a fault of a build
\* invocation ends it with an error and adds no Build Result, emission or
\* service-worker call, and nothing is produced after an error; a report of
\* success = false that completes the set of reports is no error and
\* produces a Build Result with success = false.
C9_FaultsPropagateFailuresReport ==
  /\ [](cleanState = "failed" =>
          /\ pc = "error" /\ failure = "clean"
          /\ invoked = <<>> /\ \A i \in DOMAIN run : run[i] = None
          /\ results = <<>> /\ emitted = <<>> /\ swCalls = 0)
  /\ []((\E i \in DOMAIN run : run[i] = "faulted") =>
          pc = "error" /\ failure = "compile")
  /\ [][(\E i \in DOMAIN run : run[i] # "faulted" /\ run'[i] = "faulted") =>
          results' = results /\ emitted' = emitted /\ swCalls' = swCalls]_vars
  /\ [][pc = "error" =>
          pc' = "error" /\ results' = results /\ emitted' = emitted
          /\ swCalls' = swCalls /\ invoked' = invoked]_vars
  /\ [][(\E i \in DOMAIN count :
           /\ count'[i] = count[i] + 1
           /\ latest'[i] = FALSE
           /\ \A j \in DOMAIN count : count'[j] >= 1) =>
          /\ pc' \in {"compile", "done"}
          /\ failure' = None
          /\ results' = Append(results, [success |-> FALSE,
                                         outputPath |-> ResolvedOutputPath])]_vars

C9_Witness ==
  /\ \E i \in DOMAIN run : run[i] = "faulted"
  /\ \E k \in DOMAIN emitted : ~emitted[k].success

\* C12: with a config transform, the clean and compile stages start only
\* after the transform of every entry has yielded, and the i-th runWebpack
\* call receives the transform's output for the i-th entry; without one the
\* transform is never applied and the calls receive the assembled entries.
C12_TransformedConfigsInOrder ==
  /\ transforms.config =>
       ((cleanCalls > 0 \/ invoked # <<>> \/ pc \in {"clean", "compile", "done"}) =>
          \A i \in DOMAIN xform : xform[i] = "yielded")
  /\ ~transforms.config => \A i \in DOMAIN xform : xform[i] = None
  /\ invoked # <<>> =>
       /\ Len(invoked) = Len(configs)
       /\ \A i \in DOMAIN configs :
            invoked[i] = [id |-> configs[i].id, xf |-> transforms.config]

C12_Witness ==
  /\ transforms.config
  /\ Len(configs) = 2
  /\ options.deleteOutputPath
  /\ invoked # <<>>

\* C13: without watch, at most one Build Result is produced and emitted; the
\* operation completes in the step that emits it, and has then produced and
\* emitted exactly one without an error; and every run ends, completed or
\* with an error.
C13_OneResultThenComplete ==
  /\ [](~options.watch =>
          /\ Len(results) <= 1 /\ Len(emitted) <= 1
          /\ pc = "done" => Len(results) = 1 /\ Len(emitted) = 1 /\ failure = None
          /\ Len(emitted) = 1 => pc = "done")
  /\ (~options.watch => <>(pc \in {"done", "error"}))

C13_Witness ==
  /\ ~options.watch
  /\ Len(configs) = 2
  /\ pc = "done"
  /\ Len(emitted) = 1

\* The number of build cycles every entry has reported a result for.
CompleteCycles ==
  CHOOSE m \in 0..(1 + MaxRebuilds) :
    /\ \A i \in DOMAIN count : count[i] >= m
    /\ \E i \in DOMAIN count : count[i] = m

\* C14: in watch mode, as long as no error occurred, there is one aggregate
\* and one Build Result per build cycle that every entry has reported, and
\* when all entries have reported the same cycle the last aggregate is the
\* conjunction of its results.
C14_OneResultPerCycle ==
  (options.watch /\ failure = None) =>
    /\ Len(aggs) = CompleteCycles
    /\ Len(results) = CompleteCycles
    /\ (aggs # <<>> /\ \A i, j \in DOMAIN count : count[i] = count[j]) =>
         (aggs[Len(aggs)] <=> \A i \in DOMAIN configs : latest[i])

\* The same for a Configuration List of one entry.
C14_SingleEntry ==
  Len(configs) = 1 => C14_OneResultPerCycle

\* C15: with an output transform, outputFn is called with the Build Results
\* in the order they were produced, each once, all of them unless an error
\* ended the operation, and the subscriber receives exactly the transform's
\* outputs, in that order; without one, the Build Results themselves.
C15_OutputTransformInOrder ==
  /\ transforms.output =>
       /\ Len(outCalls) <= Len(results)
       /\ outCalls = SubSeq(results, 1, Len(outCalls))
       /\ Len(emitted) <= Len(outCalls)
       /\ failure = None =>
            /\ outCalls \o outQ = results
            /\ Len(emitted) = Len(outCalls) - (IF outActive THEN 1 ELSE 0)
       /\ \A k \in DOMAIN emitted :
            emitted[k] = [success |-> outCalls[k].success,
                          outputPath |-> outCalls[k].outputPath,
                          via |-> "outputFn"]
       /\ pc = "done" => Len(emitted) = Len(results)
  /\ ~transforms.output =>
       /\ outCalls = <<>>
       /\ Len(emitted) = Len(results)
       /\ \A k \in DOMAIN emitted :
            emitted[k] = [success |-> results[k].success,
                          outputPath |-> results[k].outputPath,
                          via |-> "of"]

C15_Witness ==
  /\ transforms.output
  /\ Len(emitted) >= 1
  /\ outActive
  /\ outQ # <<>>
  /\ emitted[1].success # outQ[1].success

\* C18: the returned operation is cold. Before a subscription nothing has
\* run: no configuration resolution, no deletion, no build invocation, no
\* augmentation, no failure. A configuration failure exists only as the error
\* of a subscribed operation. Every subscription, the first and each later
\* one, starts at Configure with nothing of the pipeline done.
C18_ColdOperation ==
  /\ [](~subscribed =>
          /\ pc = "idle"
          /\ failure = None
          /\ cfgList = <<>>
          /\ cleanCalls = 0 /\ cleanState = None
          /\ invoked = <<>> /\ \A i \in DOMAIN run : run[i] = None
          /\ swCalls = 0
          /\ results = <<>> /\ emitted = <<>>)
  /\ [](failure = "configure" => subscribed /\ pc = "error")
  /\ [][(~subscribed \/ pc \in {"done", "error"}) /\ pc' # pc =>
          /\ subscribed'
          /\ pc' = "configure"
          /\ failure' = None
          /\ cfgList' = <<>>
          /\ cleanCalls' = 0
          /\ invoked' = <<>>
          /\ swCalls' = 0
          /\ results' = <<>> /\ emitted' = <<>>]_vars
  /\ [][pc = "configure" /\ pc' # pc =>
          \/ pc' = "error" /\ failure' = "configure"
          \/ cfgList' = configs]_vars

C18_Witness ==
  /\ subscribed
  /\ pc = "error"
  /\ failure = "configure"
  /\ ProjectName(context, workspace) # None
  /\ options.deleteOutputPath
  /\ cleanCalls = 0

\* C19: when the service-worker augmentation was invoked for an aggregate,
\* it was invoked once; while it is pending no Build Result exists for that
\* aggregate, none was handed to outputFn and none was emitted; once it
\* settled there is one Build Result for the aggregate, whose success flag,
\* also as emitted, is true exactly when the augmentation resolved. A Build
\* Result appears in the very step in which the augmentation settles.
C19_AugmentOnceThenEmit ==
  /\ [](swState # None =>
          /\ swCalls = 1
          /\ Len(aggs) = 1 /\ aggs[1]
          /\ swState = "pending" =>
               results = <<>> /\ outCalls = <<>> /\ emitted = <<>> /\ ~outActive
          /\ swState # "pending" =>
               /\ Len(results) = 1
               /\ results[1].success <=> swState = "resolved"
               /\ \A k \in DOMAIN outCalls : outCalls[k].success <=> swState = "resolved"
               /\ \A k \in DOMAIN emitted : emitted[k].success <=> swState = "resolved")
  /\ [][swState # "pending" /\ swState' = "pending" =>
          swCalls' = swCalls + 1 /\ results' = results /\ emitted' = emitted]_vars
  /\ [][swState = "pending" /\ swState' # "pending" =>
          /\ swCalls' = swCalls
          /\ Len(results') = 1
          /\ transforms.output => outCalls' = results' /\ emitted' = <<>>
          /\ ~transforms.output => Len(emitted') = 1]_vars

C19_Witness ==
  /\ swState = "resolved"
  /\ transforms.output
  /\ Len(configs) > 1
  /\ swCalls = 1
  /\ Len(emitted) = 1 /\ emitted[1].success /\ emitted[1].via = "outputFn"

============================================================================
